---- MODULE Spec2Model ----
(***************************************************************************)
(* A model of coinmaster_collector_ultimate.py: the SQLite store (class    *)
(* DB), the collector (class Collector: scrape, check_one, run), the CLI   *)
(* entry point main() and the Flask routes that read and change the store. *)
(*                                                                         *)
(* Five specifications share the actions:                                  *)
(*   Spec      the program invoked again and again on one database file,   *)
(*             while time passes, with a pool of one thread;               *)
(*   SpecPool  one invocation on a new database file, with a pool of up to *)
(*             PoolWorkers threads that interleave at every step of        *)
(*             check_one that touches the store;                           *)
(*   SpecRuns  the program invoked again and again on one database file    *)
(*             within one hour, with a pool of up to PoolWorkers threads;  *)
(*   SpecScrape  one call of scrape, one <a> element at a time, on pages   *)
(*             whose hrefs differ in the case of the host, in tracking     *)
(*             parameters and in the fragment, or are rejected by          *)
(*             urlparse;                                                   *)
(*   SpecCycle one invocation as in SpecPool, on the pages of SpecPool and *)
(*             on those with an href that urlparse rejects, where every    *)
(*             thread gets to run and every GET returns or raises.         *)
(* All but SpecScrape take scrape as one step per source; Spec, SpecPool   *)
(* and SpecRuns on pages whose hrefs urlparse accepts.                     *)
(*                                                                         *)
(* Time is counted in hours.  A timestamp is the value of the clock when   *)
(* datetime.utcnow() is called; ISO-8601 strings of one fixed format       *)
(* compare as the instants they denote, so the SQL comparison              *)
(* first_seen < cutoff is modelled as a comparison of integers.            *)
(*                                                                         *)
(* A text (an anchor text, a page title, a part of a URL) is a string of   *)
(* a finite vocabulary; Occurs lists which keyword occurs in which text,   *)
(* which is all that re.search(p, blob) and "k in href" ask of a text.     *)
(***************************************************************************)
EXTENDS Integers, Sequences, FiniteSets, TLC

(***************************************************************************)
(* Bounds of the model.                                                    *)
(***************************************************************************)
\* Spec: the most candidates one scrape collects
MaxItems == 2
\* Spec: the most process invocations (each appends one row to runs)
MaxRuns == 2
\* the clock advances in steps of TickHours, MaxTicks times at most
TickHours == 72
MaxTicks == 2
\* SpecPool: the widest worker pool, and the most candidates of the cycle
PoolWorkers == 2
PoolItems == 3
\* SpecScrape: the most <a> elements of a page
MaxAnchors == 2

(***************************************************************************)
(* CONFIG                                                                  *)
(***************************************************************************)
SOURCES ==
    << [name |-> "TechGameWorld", url |-> "https://techgameworld.com/coin-master-free-spins/"],
       [name |-> "Giveaway48",    url |-> "https://giveaway48.com/coin-master/"] >>

MAX_AGE_HOURS == 72
SCORE_THRESHOLD == 4
ALLOWED_FINAL_DOMAIN == "static.moonactive.net"

TRACKING_PARAMS == {"utm_source", "utm_medium", "utm_campaign", "fbclid", "gclid", "ref"}
BLACKLIST_DOMAINS == {"facebook.com", "twitter.com", "instagram.com", "youtube.com",
                      "coinmastergame.com", "apps.apple.com", "play.google.com"}
FOOTER_KEYWORDS == {"privacy", "imprint", "terms", "contact", "about", "cookie", "site-notice"}
REWARD_PATTERNS == {"free spins", "free coins", "coin master", "claim", "reward", "spin"}

\* the score check_one gives a resolution whose text matches a reward pattern
REWARD_SCORE == 5
\* the one HTTP status check_one accepts
HTTP_OK == 200

\* a Python value that may be None: << >> is None, <<x>> is the value x
None == << >>
Some(x) == <<x>>

(***************************************************************************)
(* Texts and URLs.                                                         *)
(***************************************************************************)
\* <<text, keyword>>: the keyword occurs in the lower-cased text
Occurs ==
    { <<"Free Spins", "free spins">>, <<"Free Spins", "spin">>,
      <<"Coin Master Rewards", "coin master">>, <<"Coin Master Rewards", "reward">>,
      <<"/spin", "spin">>,
      <<"/reward7", "reward">>,
      <<"/privacy", "privacy">>,
      <<"Spin policy", "spin">>,
      <<"/coinmaster-spins", "spin">> }

\* str.lower() on the host names of the model
Lower(s) ==
    CASE s = "Static.MoonActive.net" -> "static.moonactive.net"
      [] OTHER -> s

\* urlparse(href): the parts of the URL; query is the parse_qsl list of pairs
Url(scheme, netloc, path, query, fragment) ==
    [scheme |-> scheme, netloc |-> netloc, path |-> path, query |-> query,
     fragment |-> fragment]

\* the texts a URL string is made of
UrlTexts(u) ==
    {u.netloc, u.path, u.fragment}
        \cup {u.query[i][1] : i \in DOMAIN u.query}
        \cup {u.query[i][2] : i \in DOMAIN u.query}

\* a mutant of normalize: the case of the host is kept
normalize_keep_case(url) ==
    LET qs == SelectSeq(url.query, LAMBDA kv : kv[1] \notin TRACKING_PARAMS)
        scheme == IF url.scheme = "" THEN "https" ELSE url.scheme
        path == IF url.path = "" THEN "/" ELSE url.path
    IN  Url(scheme, url.netloc, path, qs, "")

normalize(url) ==
    LET qs == SelectSeq(url.query, LAMBDA kv : kv[1] \notin TRACKING_PARAMS)
        scheme == IF url.scheme = "" THEN "https" ELSE url.scheme
        netloc == Lower(url.netloc)
        path == IF url.path = "" THEN "/" ELSE url.path
    IN  Url(scheme, netloc, path, qs, "")

domain_of(url) == Lower(url.netloc)

\* blob: the set of texts joined into the blob
is_reward_text(blob) ==
    \E p \in REWARD_PATTERNS : \E t \in blob : <<t, p>> \in Occurs

(***************************************************************************)
(* The inputs of the model: what a source page holds and what the network  *)
(* answers.                                                                *)
(***************************************************************************)
\* a['href'] and a.get_text(strip=True) of the <a> elements a page may hold
Anchors ==
    { [href |-> Url("https", "Static.MoonActive.net", "/spin", << <<"utm_source", "x">> >>, ""),
       text |-> "click here"],
      [href |-> Url("https", "bit.ly", "/reward7", << >>, "top"),
       text |-> "click here"],
      [href |-> Url("https", "facebook.com", "/coinmaster-spins", << >>, ""),
       text |-> "Free Spins"],
      [href |-> Url("https", "bit.ly", "/privacy", << >>, ""),
       text |-> "Spin policy"],
      [href |-> Url("", "", "/spin", << >>, ""),
       text |-> "Free Spins"],
      [href |-> Url("https", "bit.ly", "/news", << >>, ""),
       text |-> "news"] }

\* the pages a source may answer with: the <a> elements in document order
Pages(n) == UNION { [1..k -> Anchors] : k \in 0..n }

\* the hrefs of SpecScrape: one resource written with either case of the
\* host, with and without a fragment, with each tracking parameter, and
\* with and without another parameter
Hrefs ==
    { Url("https", "Static.MoonActive.net", "/spin", << <<"utm_source", "foo">> >>, "top"),
      Url("https", "static.moonactive.net", "/spin", << >>, ""),
      Url("https", "static.moonactive.net", "/spin",
          << <<"utm_medium", "m">>, <<"utm_campaign", "c">> >>, ""),
      Url("https", "Static.MoonActive.net", "/spin",
          << <<"fbclid", "f">>, <<"gclid", "g">>, <<"ref", "r">> >>, ""),
      Url("https", "static.moonactive.net", "/spin", << <<"id", "7">> >>, ""),
      Url("https", "Static.MoonActive.net", "/spin",
          << <<"id", "7">>, <<"utm_source", "foo">> >>, "top") }

\* the hosts that urlparse rejects with ValueError('Invalid IPv6 URL'): a
\* bracket without its partner
Unbalanced == {"[static.moonactive.net"}

\* urlparse(url) raises ValueError
urlparse_raises(url) == url.netloc \in Unbalanced

\* the <a> elements of the pages of SpecScrape: the Hrefs, the relative
\* link of Anchors, and an href that urlparse rejects
ScrapeAnchors ==
    { [href |-> h, text |-> "Free Spins"] : h \in Hrefs }
        \cup { a \in Anchors : a.href.scheme = "" }
        \cup { [href |-> Url("https", "[static.moonactive.net", "/spin", << >>, ""),
                text |-> "Free Spins"] }

ScrapePages(n) == UNION { [1..k -> ScrapeAnchors] : k \in 0..n }

\* where a redirect may end
F_OK == Url("https", "static.moonactive.net", "/r/abc", << >>, "")
F_AD == Url("https", "ads.example.com", "/spin", << >>, "")

\* what self.s.get(url, allow_redirects=True) may give: an exception, or a
\* response with its status_code, its url, whether Content-Type holds 'text',
\* and the <title> of the body ("" when there is none)
Responses(url) ==
    { [exc |-> TRUE, status |-> None, final |-> url, text |-> FALSE, title |-> ""],
      [exc |-> FALSE, status |-> Some(404), final |-> url, text |-> TRUE, title |-> ""],
      [exc |-> FALSE, status |-> Some(HTTP_OK), final |-> F_OK, text |-> FALSE, title |-> ""],
      [exc |-> FALSE, status |-> Some(HTTP_OK), final |-> F_OK, text |-> TRUE,
       title |-> "Coin Master Rewards"],
      [exc |-> FALSE, status |-> Some(HTTP_OK), final |-> F_AD, text |-> TRUE,
       title |-> "Coin Master Rewards"] }

(***************************************************************************)
(* STORAGE: class DB.  links maps a url (the primary key) to its row,      *)
(* domains maps a domain (the primary key) to its trust, runs is the       *)
(* table of runs in insertion order.                                       *)
(***************************************************************************)
VARIABLES links, domains, runs

\* a table without rows
NoRows == [x \in {} |-> 0]

\* the columns of a links row other than its key
LinkRow(row) ==
    [source |-> row.source, domain |-> row.domain, first_seen |-> row.first_seen,
     last_checked |-> row.last_checked, final_url |-> row.final_url,
     final_domain |-> row.final_domain, valid |-> IF row.valid = 1 THEN 1 ELSE 0,
     score |-> row.score, title |-> row.title]

\* a mutant of upsert_link: INSERT OR REPLACE, which overwrites the whole row
upsert_link_replace(row) == (row.url :> LinkRow(row)) @@ links

\* a mutant of upsert_link: last_checked is missing in DO UPDATE SET
upsert_link_keep_checked(row) ==
    IF row.url \in DOMAIN links
    THEN [links EXCEPT ![row.url] =
            [@ EXCEPT !.final_url = row.final_url,
                      !.final_domain = row.final_domain,
                      !.valid = IF row.valid = 1 THEN 1 ELSE 0,
                      !.score = row.score,
                      !.title = row.title]]
    ELSE (row.url :> LinkRow(row)) @@ links

\* INSERT ... ON CONFLICT(url) DO UPDATE SET last_checked, final_url,
\* final_domain, valid, score, title
upsert_link(row) ==
    IF row.url \in DOMAIN links
    THEN [links EXCEPT ![row.url] =
            [@ EXCEPT !.last_checked = row.last_checked,
                      !.final_url = row.final_url,
                      !.final_domain = row.final_domain,
                      !.valid = IF row.valid = 1 THEN 1 ELSE 0,
                      !.score = row.score,
                      !.title = row.title]]
    ELSE (row.url :> LinkRow(row)) @@ links

\* SELECT trust FROM domains WHERE domain=?  (None when there is no row)
select_trust(dom) == IF dom \in DOMAIN domains THEN Some(domains[dom]) ELSE None

\* trust = (r[0] if r else 0) + delta; INSERT OR REPLACE INTO domains
replace_trust(dom, r, delta) ==
    (dom :> ((IF r = None THEN 0 ELSE r[1]) + delta)) @@ domains

\* a mutant of valid_links: the WHERE clause is missing
valid_links_all ==
    { <<u, links[u].source, links[u].title, links[u].final_url>> : u \in DOMAIN links }

\* SELECT url,source,title,final_url FROM links WHERE valid=1
valid_links ==
    { <<u, links[u].source, links[u].title, links[u].final_url>> :
        u \in {x \in DOMAIN links : links[x].valid = 1} }

\* cutoff = utcnow() - timedelta(hours=MAX_AGE_HOURS)
cleanup_cutoff(t) == t - MAX_AGE_HOURS

\* mutants of cleanup_where: AND for OR, and <= for <
cleanup_where_and(r, cutoff) == r.first_seen < cutoff /\ r.valid = 0
cleanup_where_le(r, cutoff) == r.first_seen <= cutoff \/ r.valid = 0

\* WHERE first_seen<? OR valid=0
cleanup_where(r, cutoff) == r.first_seen < cutoff \/ r.valid = 0

\* SELECT count(*) FROM links WHERE first_seen<? OR valid=0
cleanup_count(cutoff) ==
    Cardinality({u \in DOMAIN links : cleanup_where(links[u], cutoff)})

\* DELETE FROM links WHERE first_seen<? OR valid=0
cleanup_delete(cutoff) ==
    [u \in {x \in DOMAIN links : ~cleanup_where(links[x], cutoff)} |-> links[u]]

\* a mutant of insert_run: the table is overwritten
insert_run_replace(ts, checked, valid, duration) ==
    << [ts |-> ts, checked |-> checked, valid |-> valid, duration |-> duration] >>

\* INSERT INTO runs(ts,checked,valid,duration)
insert_run(ts, checked, valid, duration) ==
    Append(runs, [ts |-> ts, checked |-> checked, valid |-> valid,
                  duration |-> duration])

\* a mutant of invalidate_update: the row is deleted
invalidate_delete(u) == [x \in DOMAIN links \ {u} |-> links[x]]

\* UPDATE links SET valid=0 WHERE url=?
invalidate_update(u) ==
    IF u \in DOMAIN links THEN [links EXCEPT ![u].valid = 0] ELSE links

(***************************************************************************)
(* COLLECTOR and CLI: one process runs main(): Collector.run (scrape, then *)
(* check_one for every candidate on a ThreadPoolExecutor), DB.cleanup, and *)
(* with --web the Flask routes.  The database file outlives the process.   *)
(***************************************************************************)
VARIABLES
    now,        \* the clock, in hours
    pc,         \* where main() is: idle, scrape, resolve, cleanup, log, web
    dry,        \* args.dry, Collector.dry
    workers,    \* Collector.workers
    srcIdx,     \* scrape: the index in SOURCES of the source to fetch next
    html,       \* scrape: the page of the last source whose GET gave one
    anchor,     \* scrape: the index in html of the <a> to look at next; 0
                \* before the GET of the source
    found,      \* scrape: the candidates found so far; then run's items
    start,      \* run: start
    nthreads,   \* the threads of the executor
    tpc,        \* per item: where its check_one is
    trow,       \* per item: check_one's row (and status), while it runs
    rsel,       \* per item: the row update_domain_trust has SELECTed
    ok,         \* per item: what check_one returned
    lock,       \* DB.lock: 0, or the item whose check_one holds it
    result,     \* what run returned
    removed,    \* main: what db.cleanup returned
    rows,       \* what the last valid_links() of a route returned
    trust0      \* the domains table as it was when the process started

dbvars == <<links, domains, runs>>
mainvars == <<pc, dry, workers, srcIdx, html, anchor, found, start, result, removed>>
poolvars == <<nthreads, tpc, trow, rsel, ok, lock>>
vars == <<links, domains, runs, now, pc, dry, workers, srcIdx, html, anchor, found, start,
          nthreads, tpc, trow, rsel, ok, lock, result, removed, rows, trust0>>

\* the value of a local variable that holds nothing
NoRow == [url |-> None]

Min(a, b) == IF a < b THEN a ELSE b

\* href.startswith('http')
starts_with_http(href) == href.scheme \in {"http", "https"}

\* any(k in href.lower() for k in FOOTER_KEYWORDS)
has_footer_keyword(href) ==
    \E k \in FOOTER_KEYWORDS : \E t \in UrlTexts(href) : <<t, k>> \in Occurs

\* the body of scrape's loop over the <a> elements: whether the element
\* becomes a candidate
is_candidate(a) ==
    /\ starts_with_http(a.href)
    /\ domain_of(normalize(a.href)) \notin BLACKLIST_DOMAINS
    /\ ~has_footer_keyword(normalize(a.href))
    /\ is_reward_text(UrlTexts(normalize(a.href)) \cup {a.text})

\* what scrape appends to found for one page of source `name`
candidates_of(page, name) ==
    LET kept == SelectSeq(page, is_candidate)
    IN  [i \in 1..Len(kept) |->
            [url |-> normalize(kept[i].href), src |-> name, text |-> kept[i].text]]

\* mutants of gate: the score is not looked at; the final domain is not
\* looked at
gate_any_score(status, score, final_dom) ==
    /\ status = Some(HTTP_OK)
    /\ final_dom = ALLOWED_FINAL_DOMAIN

gate_any_domain(status, score, final_dom) ==
    /\ status = Some(HTTP_OK)
    /\ score >= SCORE_THRESHOLD

\* valid = (status == 200 and score >= SCORE_THRESHOLD and allowed)
gate(status, score, final_dom) ==
    /\ status = Some(HTTP_OK)
    /\ score >= SCORE_THRESHOLD
    /\ final_dom = ALLOWED_FINAL_DOMAIN

\* a mutant of check_row: the except branch does not reset the score
check_row_scored(item, resp, t) ==
    LET title == IF ~resp.exc /\ resp.text THEN resp.title ELSE ""
        final == IF resp.exc THEN item.url ELSE resp.final
        final_dom == domain_of(final)
        score == IF is_reward_text(UrlTexts(final) \cup {title, item.text})
                 THEN REWARD_SCORE ELSE 0
        valid == IF resp.exc THEN FALSE ELSE gate(resp.status, score, final_dom)
    IN  [url |-> item.url, source |-> item.src, domain |-> domain_of(item.url),
         first_seen |-> t, last_checked |-> t,
         final_url |-> final, final_domain |-> final_dom,
         valid |-> IF valid THEN 1 ELSE 0, score |-> score, title |-> title,
         status |-> resp.status]

\* check_one from the response to the row, at time t
check_row(item, resp, t) ==
    LET title == IF ~resp.exc /\ resp.text THEN resp.title ELSE ""
        final == IF resp.exc THEN item.url ELSE resp.final
        final_dom == domain_of(final)
        score == IF resp.exc THEN 0
                 ELSE IF is_reward_text(UrlTexts(final) \cup {title, item.text})
                      THEN REWARD_SCORE ELSE 0
        valid == IF resp.exc THEN FALSE ELSE gate(resp.status, score, final_dom)
    IN  [url |-> item.url, source |-> item.src, domain |-> domain_of(item.url),
         first_seen |-> t, last_checked |-> t,
         final_url |-> final, final_domain |-> final_dom,
         valid |-> IF valid THEN 1 ELSE 0, score |-> score, title |-> title,
         status |-> resp.status]

\* a mutant of LockFree: the lock is not waited for
LockIgnored == TRUE

\* with self.lock: the lock can be taken
LockFree == lock = 0

\* a mutant of PoolThreads: a thread for every item
PoolThreadPerItem(n, w) == n

\* ThreadPoolExecutor(max_workers=self.workers): the threads that n submitted
\* items start
PoolThreads(n, w) == Min(n, w)

Running(i) == tpc[i] \notin {"queued", "done"}

\* time passes: between two invocations and while the web UI is up.  A tick
\* is far longer than run and cleanup take: the timestamps of one invocation
\* are those of one tick
Tick ==
    /\ pc \in {"idle", "web"}
    /\ now + TickHours <= MaxTicks * TickHours
    /\ now' = now + TickHours
    /\ UNCHANGED <<dbvars, mainvars, poolvars, rows, trust0>>

\* the variables of a process that is not running
NoProcess ==
    /\ dry = FALSE
    /\ workers = 1
    /\ srcIdx = 1
    /\ html = None
    /\ anchor = 0
    /\ found = << >>
    /\ start = 0
    /\ nthreads = 0
    /\ tpc = << >>
    /\ trow = << >>
    /\ rsel = << >>
    /\ ok = << >>
    /\ lock = 0
    /\ result = None
    /\ removed = None
    /\ rows = {}
    /\ trust0 = NoRows

Init ==
    /\ links = NoRows
    /\ domains = NoRows
    /\ runs = << >>
    /\ now = 0
    /\ pc = "idle"
    /\ NoProcess

\* main: parse_args, DB(), Collector(db, workers, dry), and run up to scrape;
\* maxRuns and maxWorkers bound the invocations and the pool
Begin(maxRuns, maxWorkers) ==
    /\ pc = "idle"
    /\ Len(runs) < maxRuns
    /\ \E d \in BOOLEAN, n \in 1..maxWorkers :
          /\ dry' = d
          /\ workers' = n
    /\ pc' = "scrape"
    /\ start' = now
    /\ trust0' = domains
    /\ UNCHANGED <<dbvars, now, srcIdx, html, anchor, found, result, removed, poolvars, rows>>

\* scrape: one turn of the loop over SOURCES
ScrapeSource(maxItems) ==
    /\ pc = "scrape"
    /\ srcIdx <= Len(SOURCES)
    /\ \/ UNCHANGED found                     \* the GET or raise_for_status raised
       \/ \E page \in Pages(maxItems) :
             /\ Len(found) + Len(candidates_of(page, SOURCES[srcIdx].name)) <= maxItems
             /\ found' = found \o candidates_of(page, SOURCES[srcIdx].name)
    /\ srcIdx' = srcIdx + 1
    /\ UNCHANGED <<dbvars, now, pc, dry, workers, html, anchor, start, result,
                   removed, poolvars, rows, trust0>>

\* the process ends: only the database file is left
Exit ==
    /\ pc' = "idle"
    /\ dry' = FALSE
    /\ workers' = 1
    /\ srcIdx' = 1
    /\ html' = None
    /\ anchor' = 0
    /\ found' = << >>
    /\ start' = 0
    /\ nthreads' = 0
    /\ tpc' = << >>
    /\ trow' = << >>
    /\ rsel' = << >>
    /\ ok' = << >>
    /\ lock' = 0
    /\ result' = None
    /\ removed' = None
    /\ rows' = {}
    /\ trust0' = NoRows
    /\ UNCHANGED <<dbvars, now>>

\* scrape, one step at a time.  The GET of the next source: it raises (or
\* raise_for_status does) and the loop continues with the source after it,
\* or it gives the page
ScrapeGet ==
    /\ pc = "scrape"
    /\ srcIdx <= Len(SOURCES)
    /\ anchor = 0
    /\ \/ /\ srcIdx' = srcIdx + 1
          /\ UNCHANGED <<html, anchor>>
       \/ /\ \E page \in ScrapePages(MaxAnchors) : html' = Some(page)
          /\ anchor' = 1
          /\ UNCHANGED srcIdx
    /\ UNCHANGED <<dbvars, now, pc, dry, workers, found, start, result,
                   removed, poolvars, rows, trust0>>

\* scrape: one turn of the loop over the <a> elements of the page
ScrapeAnchor ==
    /\ pc = "scrape"
    /\ anchor >= 1
    /\ anchor <= Len(html[1])
    /\ ~(starts_with_http(html[1][anchor].href) /\ urlparse_raises(html[1][anchor].href))
    /\ found' = IF is_candidate(html[1][anchor])
                THEN Append(found, [url |-> normalize(html[1][anchor].href),
                                    src |-> SOURCES[srcIdx].name,
                                    text |-> html[1][anchor].text])
                ELSE found
    /\ anchor' = anchor + 1
    /\ UNCHANGED <<dbvars, now, pc, dry, workers, srcIdx, html, start, result,
                   removed, poolvars, rows, trust0>>

\* scrape: the loop over the <a> elements ends; on to the next source
ScrapeNext ==
    /\ pc = "scrape"
    /\ anchor >= 1
    /\ anchor > Len(html[1])
    /\ anchor' = 0
    /\ srcIdx' = srcIdx + 1
    /\ UNCHANGED <<dbvars, now, pc, dry, workers, html, found, start, result,
                   removed, poolvars, rows, trust0>>

\* scrape: normalize(href) raises ValueError; nothing catches it in scrape,
\* run or main, and the process ends
ScrapeRaise ==
    /\ pc = "scrape"
    /\ anchor >= 1
    /\ anchor <= Len(html[1])
    /\ starts_with_http(html[1][anchor].href)
    /\ urlparse_raises(html[1][anchor].href)
    /\ Exit

\* run, after scrape: no candidate
RunEmpty ==
    /\ pc = "scrape"
    /\ srcIdx > Len(SOURCES)
    /\ Len(found) = 0
    /\ LockFree
    /\ runs' = insert_run(now, 0, 0, 0)
    /\ result' = Some(<<0, 0, 0>>)
    /\ pc' = "cleanup"
    /\ UNCHANGED <<links, domains, now, dry, workers, srcIdx, html, anchor, found, start,
                   removed, poolvars, rows, trust0>>

\* run, after scrape: ex.map submits check_one for every item
RunSubmit ==
    /\ pc = "scrape"
    /\ srcIdx > Len(SOURCES)
    /\ Len(found) > 0
    /\ nthreads' = PoolThreads(Len(found), workers)
    /\ tpc' = [i \in 1..Len(found) |-> "queued"]
    /\ trow' = [i \in 1..Len(found) |-> NoRow]
    /\ rsel' = [i \in 1..Len(found) |-> None]
    /\ ok' = [i \in 1..Len(found) |-> FALSE]
    /\ pc' = "resolve"
    /\ UNCHANGED <<dbvars, now, dry, workers, srcIdx, html, anchor, found, start, result,
                   removed, lock, rows, trust0>>

\* a thread of the pool takes the next item of the queue and sends the GET
TaskStart(i) ==
    /\ pc = "resolve"
    /\ tpc[i] = "queued"
    /\ \A j \in 1..(i - 1) : tpc[j] # "queued"
    /\ Cardinality({j \in DOMAIN tpc : Running(j)}) < nthreads
    /\ tpc' = [tpc EXCEPT ![i] = "fetching"]
    /\ UNCHANGED <<dbvars, now, mainvars, nthreads, trow, rsel, ok, lock, rows, trust0>>

\* check_one: the GET returns or raises; the row is built
TaskFetch(i) ==
    /\ pc = "resolve"
    /\ tpc[i] = "fetching"
    /\ \E resp \in Responses(found[i].url) :
          trow' = [trow EXCEPT ![i] = check_row(found[i], resp, now)]
    /\ tpc' = [tpc EXCEPT ![i] = "checked"]
    /\ UNCHANGED <<dbvars, now, mainvars, nthreads, rsel, ok, lock, rows, trust0>>

\* check_one in a dry run: nothing is stored
TaskDry(i) ==
    /\ pc = "resolve"
    /\ tpc[i] = "checked"
    /\ dry
    /\ ok' = [ok EXCEPT ![i] = (trow[i].valid = 1)]
    /\ trow' = [trow EXCEPT ![i] = NoRow]
    /\ tpc' = [tpc EXCEPT ![i] = "done"]
    /\ UNCHANGED <<dbvars, now, mainvars, nthreads, rsel, lock, rows, trust0>>

\* check_one: self.db.upsert_link(row)
TaskUpsert(i) ==
    /\ pc = "resolve"
    /\ tpc[i] = "checked"
    /\ ~dry
    /\ trow[i].valid = 1
    /\ LockFree
    /\ links' = upsert_link(trow[i])
    /\ tpc' = [tpc EXCEPT ![i] = "trust"]
    /\ UNCHANGED <<domains, runs, now, mainvars, nthreads, trow, rsel, ok, lock,
                   rows, trust0>>

\* a mutant of TaskTrustSelect: a rejected row is stored too
TaskTrustSelectStored(i) ==
    /\ pc = "resolve"
    /\ \/ tpc[i] = "trust"
       \/ tpc[i] = "checked" /\ ~dry /\ trow[i].valid = 0
    /\ LockFree
    /\ lock' = i
    /\ rsel' = [rsel EXCEPT ![i] = select_trust(trow[i].domain)]
    /\ tpc' = [tpc EXCEPT ![i] = "replace"]
    /\ links' = IF trow[i].valid = 0 THEN upsert_link(trow[i]) ELSE links
    /\ UNCHANGED <<domains, runs, now, mainvars, nthreads, trow, ok, rows, trust0>>

\* update_domain_trust: the lock is taken and the SELECT done
TaskTrustSelect(i) ==
    /\ pc = "resolve"
    /\ \/ tpc[i] = "trust"
       \/ tpc[i] = "checked" /\ ~dry /\ trow[i].valid = 0
    /\ LockFree
    /\ lock' = i
    /\ rsel' = [rsel EXCEPT ![i] = select_trust(trow[i].domain)]
    /\ tpc' = [tpc EXCEPT ![i] = "replace"]
    /\ UNCHANGED <<dbvars, now, mainvars, nthreads, trow, ok, rows, trust0>>

\* update_domain_trust: INSERT OR REPLACE, commit, the lock is released;
\* check_one returns
TaskTrustReplace(i) ==
    /\ pc = "resolve"
    /\ tpc[i] = "replace"
    /\ domains' = replace_trust(trow[i].domain, rsel[i],
                                IF trow[i].valid = 1 THEN 1 ELSE -1)
    /\ lock' = 0
    /\ ok' = [ok EXCEPT ![i] = (trow[i].valid = 1)]
    /\ trow' = [trow EXCEPT ![i] = NoRow]
    /\ rsel' = [rsel EXCEPT ![i] = None]
    /\ tpc' = [tpc EXCEPT ![i] = "done"]
    /\ UNCHANGED <<links, runs, now, mainvars, nthreads, rows, trust0>>

\* the number of True among the results, counted in the order of the items
RECURSIVE count_ok(_)
count_ok(s) ==
    IF s = << >> THEN 0
    ELSE (IF s[Len(s)] THEN 1 ELSE 0) + count_ok(SubSeq(s, 1, Len(s) - 1))

\* a mutant of RunFinish: run does not wait for every check_one
RunFinishEarly ==
    /\ pc = "resolve"
    /\ \E i \in DOMAIN tpc : tpc[i] = "done"
    /\ LockFree
    /\ runs' = insert_run(now, Len(found), count_ok(ok), now - start)
    /\ result' = Some(<<count_ok(ok), Len(found), now - start>>)
    /\ pc' = "cleanup"
    /\ UNCHANGED <<links, domains, now, dry, workers, srcIdx, html, anchor, found, start,
                   removed, poolvars, rows, trust0>>

\* run: every check_one has returned; insert_run and return
RunFinish ==
    /\ pc = "resolve"
    /\ \A i \in DOMAIN tpc : tpc[i] = "done"
    /\ LockFree
    /\ runs' = insert_run(now, Len(found), count_ok(ok), now - start)
    /\ result' = Some(<<count_ok(ok), Len(found), now - start>>)
    /\ pc' = "cleanup"
    /\ UNCHANGED <<links, domains, now, dry, workers, srcIdx, html, anchor, found, start,
                   removed, poolvars, rows, trust0>>

\* a mutant of cleanup_links: dry is not looked at
cleanup_links_always(d, t) == cleanup_delete(cleanup_cutoff(t))

\* DB.cleanup(dry): what it does to links and what it returns
cleanup_links(d, t) == IF d THEN links ELSE cleanup_delete(cleanup_cutoff(t))
cleanup_return(d, t) == IF d THEN Some(cleanup_count(cleanup_cutoff(t))) ELSE None

\* main: removed = db.cleanup(dry=args.dry)
MainCleanup ==
    /\ pc = "cleanup"
    /\ dry \/ LockFree
    /\ links' = cleanup_links(dry, now)
    /\ removed' = cleanup_return(dry, now)
    /\ pc' = "log"
    /\ UNCHANGED <<domains, runs, now, dry, workers, srcIdx, html, anchor, found, start,
                   result, poolvars, rows, trust0>>

\* main: the log line, and without --web the process ends
MainExit ==
    /\ pc = "log"
    /\ Exit

\* main: the log line, and with --web the web UI starts
MainWeb ==
    /\ pc = "log"
    /\ pc' = "web"
    /\ UNCHANGED <<dbvars, now, dry, workers, srcIdx, html, anchor, found, start, result,
                   removed, poolvars, rows, trust0>>

\* the routes /, /export.csv and /export.json: rows = app.db.valid_links()
WebIndex ==
    /\ pc = "web"
    /\ rows' = valid_links
    /\ UNCHANGED <<dbvars, now, mainvars, poolvars, trust0>>

\* the route /invalidate?u=...
WebInvalidate(u) ==
    /\ pc = "web"
    /\ links' = invalidate_update(u)
    /\ UNCHANGED <<domains, runs, now, mainvars, poolvars, rows, trust0>>

\* the route /cleanup: app.db.cleanup(dry=False)
WebCleanup ==
    /\ pc = "web"
    /\ LockFree
    /\ links' = cleanup_links(FALSE, now)
    /\ UNCHANGED <<domains, runs, now, mainvars, poolvars, rows, trust0>>

\* the server is stopped
WebStop ==
    /\ pc = "web"
    /\ Exit

\* the urls a request may name: the candidates'
Urls == {normalize(a.href) : a \in {x \in Anchors : is_candidate(x)}}

\* the steps of the pool's threads and of the routes
Work ==
    \/ \E i \in DOMAIN tpc : TaskStart(i)
    \/ \E i \in DOMAIN tpc : TaskFetch(i)
    \/ \E i \in DOMAIN tpc : TaskDry(i)
    \/ \E i \in DOMAIN tpc : TaskUpsert(i)
    \/ \E i \in DOMAIN tpc : TaskTrustSelect(i)
    \/ \E i \in DOMAIN tpc : TaskTrustReplace(i)
    \/ RunEmpty
    \/ RunSubmit
    \/ RunFinish
    \/ MainCleanup
    \/ MainExit
    \/ MainWeb
    \/ WebIndex
    \/ \E u \in Urls : WebInvalidate(u)
    \/ WebCleanup
    \/ WebStop

\* the program run again and again on one database file, one check_one at a
\* time, while time passes
Next ==
    \/ Tick
    \/ Begin(MaxRuns, 1)
    \/ ScrapeSource(MaxItems)
    \/ Work

Spec == Init /\ [][Next]_vars

\* one invocation on a new database file, with a pool of threads
NextPool ==
    \/ Begin(1, PoolWorkers)
    \/ ScrapeSource(PoolItems)
    \/ Work

SpecPool == Init /\ [][NextPool]_vars

\* the program run again and again on one database file, with a pool of
\* threads, all within one hour
NextRuns ==
    \/ Begin(MaxRuns, PoolWorkers)
    \/ ScrapeSource(MaxItems)
    \/ Work

SpecRuns == Init /\ [][NextRuns]_vars

\* one call of scrape, step by step
NextScrape ==
    \/ Begin(1, 1)
    \/ ScrapeGet
    \/ ScrapeAnchor
    \/ ScrapeRaise
    \/ ScrapeNext

SpecScrape == Init /\ [][NextScrape]_vars

\* scrape: one turn of the loop over SOURCES in which the page that is read
\* holds an href that normalize raises on (ScrapeGet, ScrapeAnchor for the
\* elements before it and ScrapeRaise, as one step)
ScrapeSourceRaise ==
    /\ pc = "scrape"
    /\ srcIdx <= Len(SOURCES)
    /\ \E page \in ScrapePages(MaxAnchors) :
          \E k \in DOMAIN page :
              /\ starts_with_http(page[k].href)
              /\ urlparse_raises(page[k].href)
    /\ Exit

\* the steps of the thread that runs main, from scrape to the log line
MainThread ==
    \/ ScrapeSource(PoolItems)
    \/ ScrapeSourceRaise
    \/ RunEmpty
    \/ RunSubmit
    \/ RunFinish
    \/ MainCleanup
    \/ MainExit
    \/ MainWeb

\* the steps of the check_one call of item i
Task(i) ==
    /\ i \in DOMAIN tpc
    /\ \/ TaskStart(i)
       \/ TaskFetch(i)
       \/ TaskDry(i)
       \/ TaskUpsert(i)
       \/ TaskTrustSelect(i)
       \/ TaskTrustReplace(i)

\* one invocation on a new database file, with a pool of threads, on pages
\* of any kind
NextCycle ==
    \/ Begin(1, PoolWorkers)
    \/ ScrapeSource(PoolItems)
    \/ ScrapeSourceRaise
    \/ Work

\* the main thread and every thread of the pool get to run, and every GET
\* returns or raises (timeout=TIMEOUT); nothing makes a user start the
\* program or stop the web UI
Fairness ==
    /\ WF_vars(MainThread)
    /\ \A i \in 1..PoolItems : WF_vars(Task(i))

SpecCycle == Init /\ [][NextCycle]_vars /\ Fairness

(***************************************************************************)
(* The claims.                                                             *)
(***************************************************************************)
\* trust of a domain in a domains table, 0 when it has no row
TrustIn(tbl, dom) == IF dom \in DOMAIN tbl THEN tbl[dom] ELSE 0

\* the items whose check_one holds a row
Checked == {i \in DOMAIN tpc : tpc[i] \in {"checked", "trust", "replace"}}

\* a record of links is older than the TTL at time t
Expired(r, t) == r.first_seen < t - MAX_AGE_HOURS

\* C1: an upsert of a url that has a record keeps the record's first_seen
\* and sets its last_checked to the new row's; an upsert of a url that has no
\* record creates one record, the new row's; no other record changes.
C1_UpsertKeepsFirstSeen ==
    [][\A i \in DOMAIN tpc : TaskUpsert(i) =>
        LET u == trow[i].url IN
        /\ u \in DOMAIN links =>
              /\ DOMAIN links' = DOMAIN links
              /\ links'[u].first_seen = links[u].first_seen
              /\ links'[u].last_checked = trow[i].last_checked
        /\ u \notin DOMAIN links =>
              /\ DOMAIN links' = DOMAIN links \cup {u}
              /\ links'[u].first_seen = trow[i].first_seen
              /\ links'[u].last_checked = trow[i].last_checked
        /\ \A v \in DOMAIN links \ {u} : links'[v] = links[v]]_vars

\* an upsert has met a record made at an earlier time
C1_Witness ==
    \E u \in DOMAIN links : links[u].first_seen < links[u].last_checked

\* C2: a live cleanup deletes the records that are older than the TTL or
\* invalid, and only those; the records it keeps are unchanged, and no valid
\* record older than the TTL is left.
C2_LiveCleanupExact ==
    [][((MainCleanup /\ ~dry) \/ WebCleanup) =>
        /\ DOMAIN links' =
              {u \in DOMAIN links : ~Expired(links[u], now) /\ links[u].valid = 1}
        /\ \A u \in DOMAIN links' : links'[u] = links[u]
        /\ \A u \in DOMAIN links' :
              links'[u].valid = 1 => links'[u].first_seen >= now - MAX_AGE_HOURS]_vars

\* after a live cleanup: of two accepted candidates one record is gone and
\* one is kept
C2_Witness ==
    /\ pc = "log"
    /\ ~dry
    /\ \E i \in DOMAIN ok : ok[i] /\ found[i].url \notin DOMAIN links
    /\ \E i \in DOMAIN ok : ok[i] /\ found[i].url \in DOMAIN links

\* C3: a live cleanup returns the number of records it deleted.
C3_LiveCleanupReturnsCount ==
    [][(MainCleanup /\ ~dry) =>
        removed' = Some(Cardinality(DOMAIN links) - Cardinality(DOMAIN links'))]_vars

\* C4: a dry-run cleanup changes no table and returns the number of records
\* that are older than the TTL or invalid.
C4_DryCleanupFrame ==
    [][(MainCleanup /\ dry) =>
        /\ links' = links
        /\ domains' = domains
        /\ runs' = runs
        /\ removed' = Some(Cardinality(
              {u \in DOMAIN links : Expired(links[u], now) \/ links[u].valid = 0}))]_vars

\* after a dry-run cleanup of two records of which one matches
C4_Witness ==
    /\ pc = "log"
    /\ dry
    /\ removed = Some(1)
    /\ Cardinality(DOMAIN links) = 2

\* the trust a domain has got from the check_one calls that have returned
Gained(dom) ==
    Cardinality({i \in DOMAIN tpc :
                    tpc[i] = "done" /\ domain_of(found[i].url) = dom /\ ok[i]})
Lost(dom) ==
    Cardinality({i \in DOMAIN tpc :
                    tpc[i] = "done" /\ domain_of(found[i].url) = dom /\ ~ok[i]})

\* C5: in a live run, at every moment and for every interleaving of the
\* threads, the trust of a domain is its trust at the start plus the number
\* of accepted minus the number of rejected candidates of that domain whose
\* check_one has returned.
C5_TrustAccounting ==
    (pc \in {"resolve", "cleanup"} /\ ~dry) =>
        \A dom \in {domain_of(u) : u \in Urls} :
            TrustIn(domains, dom) = TrustIn(trust0, dom) + Gained(dom) - Lost(dom)

\* one check_one is inside update_domain_trust and another, for the same
\* domain, waits for the lock
C5_Witness ==
    \E i, j \in DOMAIN tpc :
        /\ i # j
        /\ tpc[i] = "replace"
        /\ tpc[j] \in {"checked", "trust"}
        /\ ~dry
        /\ trow[i].domain = trow[j].domain

\* C6: never more check_one calls are in progress than the pool is wide.
C6_BoundedConcurrency ==
    Cardinality({i \in DOMAIN tpc : tpc[i] \notin {"queued", "done"}}) <= workers

\* more candidates than threads: the pool is full and a candidate waits
C6_Witness ==
    /\ pc = "resolve"
    /\ workers = 2
    /\ Cardinality({i \in DOMAIN tpc : tpc[i] = "fetching"}) = workers
    /\ \E i \in DOMAIN tpc : tpc[i] = "queued"

\* C7: a resolution is accepted exactly when its status is 200, its score is
\* at least the threshold and its final domain is the allowed domain; a
\* resolution without status (the GET raised) has score 0 and is rejected.
C7_Gate ==
    \A i \in Checked :
        /\ (trow[i].valid = 1) <=>
              /\ trow[i].status = Some(HTTP_OK)
              /\ trow[i].score >= SCORE_THRESHOLD
              /\ trow[i].final_domain = ALLOWED_FINAL_DOMAIN
        /\ trow[i].status = None =>
              /\ trow[i].valid = 0
              /\ trow[i].score = 0
              /\ trow[i].final_url = found[i].url
              /\ trow[i].title = ""

\* an accepted resolution beside one that only its final domain rejects
C7_Witness ==
    \E i, j \in Checked :
        /\ trow[i].valid = 1
        /\ trow[j].valid = 0
        /\ trow[j].status = Some(HTTP_OK)
        /\ trow[j].score >= SCORE_THRESHOLD
        /\ trow[j].final_domain # ALLOWED_FINAL_DOMAIN

\* C8 as claimed: after a live run and its cleanup every accepted candidate
\* has a valid record, which valid_links returns.
C8_AcceptedIsValid ==
    (pc = "log" /\ ~dry) =>
        \A i \in DOMAIN ok : ok[i] =>
            /\ found[i].url \in DOMAIN links
            /\ links[found[i].url].valid = 1
            /\ \E r \in valid_links : r[1] = found[i].url

\* C8, amended: when the cleanup of a live run starts every accepted
\* candidate has a valid record, and the cleanup keeps it valid, and
\* valid_links returns it, if its first_seen is not older than the TTL.
C8_AcceptedFreshIsValid ==
    [][(MainCleanup /\ ~dry) =>
        \A i \in DOMAIN ok : ok[i] =>
            LET u == found[i].url IN
            /\ u \in DOMAIN links
            /\ links[u].valid = 1
            /\ ~Expired(links[u], now) =>
                  /\ u \in DOMAIN links'
                  /\ links'[u].valid = 1
                  /\ <<u, links'[u].source, links'[u].title, links'[u].final_url>>
                        \in valid_links']_vars

\* after a live run and its cleanup: an accepted candidate's record, first
\* seen in an earlier run, is valid
C8_Witness ==
    /\ pc = "log"
    /\ ~dry
    /\ \E i \in DOMAIN ok :
          /\ ok[i]
          /\ found[i].url \in DOMAIN links
          /\ links[found[i].url].valid = 1
          /\ links[found[i].url].first_seen < links[found[i].url].last_checked

\* C9: valid_links returns the records whose valid is 1, each once with its
\* url, source, title and final_url, and nothing else.
C9_ValidLinksExact ==
    [][WebIndex =>
        /\ \A u \in DOMAIN links : links[u].valid = 1 =>
              <<u, links[u].source, links[u].title, links[u].final_url>> \in rows'
        /\ \A r \in rows' :
              /\ r[1] \in DOMAIN links
              /\ links[r[1]].valid = 1
              /\ r = <<r[1], links[r[1]].source, links[r[1]].title, links[r[1]].final_url>>
        /\ Cardinality(rows') =
              Cardinality({u \in DOMAIN links : links[u].valid = 1})]_vars

\* valid_links has returned the one valid record of two
C9_Witness ==
    /\ pc = "web"
    /\ Cardinality(rows) = 1
    /\ Cardinality(DOMAIN links) = 2
    /\ \E u \in DOMAIN links : links[u].valid = 0
    /\ \A r \in rows : r[1] \in DOMAIN links /\ links[r[1]].valid = 1

\* C10: invalidate sets valid to 0 in the record of the url and changes
\* nothing else: no other column, no other record, no trust, no run; without
\* a record of the url it changes nothing.  A record that is invalid becomes
\* valid again only by an accepted upsert of its url.
C10_InvalidateFrame ==
    [][/\ \A u \in Urls : WebInvalidate(u) =>
              /\ u \in DOMAIN links => links' = [links EXCEPT ![u].valid = 0]
              /\ u \notin DOMAIN links => links' = links
              /\ domains' = domains
              /\ runs' = runs
       /\ \A u \in DOMAIN links :
              (links[u].valid = 0 /\ u \in DOMAIN links' /\ links'[u].valid = 1) =>
                  \E i \in DOMAIN tpc :
                      TaskUpsert(i) /\ trow[i].url = u /\ trow[i].valid = 1]_vars

\* an invalidated record of two is still there in the next run, and an
\* accepted check_one is about to upsert its url
C10_Witness ==
    /\ ~dry
    /\ Cardinality(DOMAIN links) = 2
    /\ \E i \in DOMAIN tpc :
          /\ tpc[i] = "checked"
          /\ trow[i].valid = 1
          /\ trow[i].url \in DOMAIN links
          /\ links[trow[i].url].valid = 0

\* the candidates of the cycle whose check_one returned True
Accepted == {i \in DOMAIN ok : ok[i]}

Failed(i) == i \in DOMAIN trow /\ trow[i].url # None /\ trow[i].status = None

\* C12: a GET that raises ends in check_one: the row has no status, the
\* candidate's url as final_url, score 0, no title, and is rejected, and the
\* step touches no other candidate and leaves the cycle running; the call
\* returns False, stores no record and in a live run takes 1 from the trust
\* of the row's domain; and the cycle ends with every candidate checked, the
\* accepted ones stored, and with counts in which the failed candidate is
\* not among the valid.
C12_FetchFailure ==
    /\ [][\A i \in DOMAIN tpc : (TaskFetch(i) /\ Failed(i)') =>
              /\ trow'[i].final_url = found[i].url
              /\ trow'[i].score = 0
              /\ trow'[i].title = ""
              /\ trow'[i].valid = 0
              /\ pc' = "resolve"
              /\ \A j \in DOMAIN tpc \ {i} :
                    tpc'[j] = tpc[j] /\ trow'[j] = trow[j] /\ ok'[j] = ok[j]]_vars
    /\ [][\A i \in DOMAIN tpc : (Failed(i) /\ tpc[i] # "done" /\ tpc'[i] = "done") =>
              /\ ~ok'[i]
              /\ links' = links
              /\ dry => domains' = domains
              /\ ~dry => domains' = (trow[i].domain :> (TrustIn(domains, trow[i].domain) - 1))
                                       @@ domains]_vars
    /\ \A i \in 1..PoolItems :
          [](Failed(i) =>
                [](pc \in {"cleanup", "log", "web"} =>
                      /\ \A j \in DOMAIN tpc : tpc[j] = "done"
                      /\ i \in DOMAIN ok /\ i \notin Accepted
                      /\ result # None
                      /\ result[1][2] = Len(found)
                      /\ result[1][1] = Cardinality(Accepted)
                      /\ result[1][1] < result[1][2]
                      /\ runs[Len(runs)].checked = result[1][2]
                      /\ runs[Len(runs)].valid = result[1][1]
                      /\ (pc = "cleanup" /\ ~dry) =>
                            \A j \in Accepted : found[j].url \in DOMAIN links))

\* a live cycle of three candidates has ended: the GET of the second raised
\* (its domain has lost trust), the other two were accepted and stored
C12_Witness ==
    /\ pc = "cleanup"
    /\ ~dry
    /\ ok = <<TRUE, FALSE, TRUE>>
    /\ result = Some(<<2, 3, 0>>)
    /\ found[1].url # found[2].url /\ found[3].url = found[1].url
    /\ TrustIn(domains, domain_of(found[2].url)) = -1
    /\ found[1].url \in DOMAIN links

\* two hosts that differ at most in the case of their letters
SameHost(a, b) ==
    \/ a = b
    \/ {a, b} = {"Static.MoonActive.net", "static.moonactive.net"}

\* the parameters of a query that are not tracking parameters, in order
OtherParams(q) ==
    SelectSeq(q, LAMBDA kv : kv[1] \notin {"utm_source", "utm_medium", "utm_campaign",
                                           "fbclid", "gclid", "ref"})

\* two urls that differ at most in tracking parameters, in the fragment and
\* in the case of the host
SameButTracking(u, v) ==
    /\ u.scheme = v.scheme
    /\ SameHost(u.netloc, v.netloc)
    /\ u.path = v.path
    /\ OtherParams(u.query) = OtherParams(v.query)

\* C13: the url scrape makes of an href by normalize is the url normalize
\* makes of every href that differs from it only in tracking parameters, in
\* the fragment or in the case of the host; it has no tracking parameter and
\* no fragment, and its host is in lower case.
C13_NormalizeCollapses ==
    [][(ScrapeAnchor /\ Len(found') = Len(found) + 1) =>
        LET u == html[1][anchor].href
            n == found'[Len(found')].url
        IN  /\ \A v \in Hrefs : SameButTracking(u, v) => normalize(v) = n
            /\ \A v \in Hrefs : ~SameButTracking(u, v) => normalize(v) # n
            /\ n.fragment = ""
            /\ OtherParams(n.query) = n.query
            /\ n.netloc = "static.moonactive.net"]_vars

\* scrape has looked at a page of two hrefs, one with only a tracking
\* parameter and the other without query, in different case of the host and
\* with different fragments: both candidates have the same url
C13_Witness ==
    /\ srcIdx = 1
    /\ html # None
    /\ anchor = 3
    /\ Len(found) = 2
    /\ html[1][1].href.query = << <<"utm_source", "foo">> >>
    /\ html[1][2].href.query = << >>
    /\ html[1][1].href.netloc # html[1][2].href.netloc
    /\ html[1][1].href.fragment # html[1][2].href.fragment
    /\ found[1].url = found[2].url

\* C14: the list scrape makes holds a url at most once: an <a> whose url is
\* in the list already adds nothing, so that the url keeps the source it was
\* first found on.
C14_CandidatesUnique ==
    [][ScrapeAnchor =>
        /\ (\E k \in DOMAIN found : found[k].url = normalize(html[1][anchor].href)) =>
              found' = found
        /\ \A i, j \in DOMAIN found' : found'[i].url = found'[j].url => i = j]_vars

\* the items that check_one has rejected and not yet returned
Rejected == {i \in Checked : trow[i].valid = 0}

\* C15: no step of a check_one that has rejected its candidate creates,
\* changes or removes a record of links, whether a record of the url exists
\* (valid or not) or not, and none changes runs; in a dry run none changes
\* domains; in a live run the call ends with 1 taken from the trust of the
\* row's domain, which is its one change to the database.
C15_RejectionFrame ==
    [][\A i \in Rejected : (tpc'[i] # tpc[i]) =>
          /\ links' = links
          /\ runs' = runs
          /\ (dry \/ tpc'[i] # "done") => domains' = domains
          /\ (~dry /\ tpc'[i] = "done") =>
                domains' = (trow[i].domain :> (TrustIn(domains, trow[i].domain) - 1))
                              @@ domains]_vars

\* a live check_one has rejected a candidate whose url has a valid record
\* from an earlier cycle, and is about to write the trust
C15_Witness ==
    /\ ~dry
    /\ \E i \in Rejected :
          /\ tpc[i] = "replace"
          /\ trow[i].url \in DOMAIN links
          /\ links[trow[i].url].valid = 1
          /\ Len(runs) = 1

\* C16 as claimed: every check_one of a live run whose url has a record
\* leaves the record with the time of this check as last_checked.
C16_LastCheckedEveryAttempt ==
    [][\A i \in Checked :
          (~dry /\ tpc'[i] = "done" /\ trow[i].url \in DOMAIN links) =>
              /\ trow[i].url \in DOMAIN links'
              /\ links'[trow[i].url].last_checked = trow[i].last_checked]_vars

\* C16, amended: a check_one of a live run that has accepted its candidate
\* leaves the record of the url with the time of this check as last_checked;
\* one that has rejected it leaves the record, last_checked included, as it
\* was.
C16_LastCheckedOnAccept ==
    [][\A i \in Checked : (~dry /\ tpc'[i] = "done") =>
          /\ trow[i].valid = 1 =>
                /\ trow[i].url \in DOMAIN links'
                /\ links'[trow[i].url].last_checked = trow[i].last_checked
          /\ (trow[i].valid = 0 /\ trow[i].url \in DOMAIN links) =>
                /\ trow[i].url \in DOMAIN links'
                /\ links'[trow[i].url] = links[trow[i].url]]_vars

\* a live check_one has accepted a url that has a record of an earlier time,
\* and has stored it
C16_Witness ==
    /\ ~dry
    /\ \E i \in Checked :
          /\ tpc[i] = "trust"
          /\ trow[i].valid = 1
          /\ links[trow[i].url].first_seen < now
          /\ links[trow[i].url].last_checked = now

\* the host of the page of a source
source_host(name) ==
    CASE name = "TechGameWorld" -> "techgameworld.com"
      [] name = "Giveaway48" -> "giveaway48.com"

\* C17: the trust that a check_one of a live run changes is the trust of the
\* host of the source page of its candidate: 1 more when accepted, 1 less
\* when rejected.
C17_TrustOfSourceHost ==
    [][\A i \in Checked : (~dry /\ tpc'[i] = "done") =>
          LET host == source_host(found[i].src)
              delta == IF trow[i].valid = 1 THEN 1 ELSE -1
          IN  domains' = (host :> (TrustIn(domains, host) + delta)) @@ domains]_vars

\* the items whose GET has not returned
Unresolved == {i \in DOMAIN tpc : tpc[i] \in {"queued", "fetching"}}

\* C18 as claimed: the first check_one starts after scrape has ended; no
\* step writes links or domains while a candidate is unresolved; cleanup
\* starts after every check_one has returned and run has appended its row.
C18_StrictPhases ==
    [][/\ (\E i \in DOMAIN tpc : tpc[i] = "queued" /\ tpc'[i] # "queued") =>
              srcIdx > Len(SOURCES)
       /\ (pc = "resolve" /\ (links' # links \/ domains' # domains)) =>
              Unresolved = {}
       /\ (pc = "cleanup" /\ pc' # "cleanup") =>
              /\ \A i \in DOMAIN tpc : tpc[i] = "done"
              /\ result # None
              /\ runs # << >>]_vars

\* C18, amended: the first check_one starts after scrape has ended; a step
\* that writes links or domains during the resolution is a step of a
\* check_one whose own GET has returned, whatever the other check_one are
\* at; run appends its row after every check_one has returned; cleanup
\* starts after that.
C18_PersistAfterOwnResolution ==
    [][/\ (\E i \in DOMAIN tpc : tpc[i] = "queued" /\ tpc'[i] # "queued") =>
              srcIdx > Len(SOURCES)
       /\ (pc = "resolve" /\ (links' # links \/ domains' # domains)) =>
              \E i \in Checked : tpc'[i] # tpc[i]
       /\ runs' # runs =>
              /\ \A i \in DOMAIN tpc : tpc[i] = "done"
              /\ srcIdx > Len(SOURCES)
              /\ pc' = "cleanup"
       /\ (pc = "cleanup" /\ pc' # "cleanup") =>
              /\ \A i \in DOMAIN tpc : tpc[i] = "done"
              /\ result # None
              /\ runs # << >>]_vars

\* the first candidate is stored and its trust written while the GET of
\* the second has not returned and the third waits in the queue
C18_Witness ==
    /\ pc = "resolve"
    /\ ~dry
    /\ Len(found) = 3
    /\ tpc = <<"done", "fetching", "queued">>
    /\ found[1].url \in DOMAIN links
    /\ TrustIn(domains, domain_of(found[1].url)) = 1

\* C19: no step of a dry run, from its start to the end of its cleanup,
\* changes links, domains or runs.
C19_DryRunFrame ==
    [][(dry /\ pc \in {"scrape", "resolve", "cleanup"}) =>
          /\ links' = links
          /\ domains' = domains
          /\ runs' = runs]_vars

\* C20: a source whose GET fails adds no candidate and takes none away, and
\* scrape goes on to the source after it, or ends when it was the last, with
\* the candidates of the sources before it; no step of scrape, whatever the
\* page it reads, ends scrape before the last source or takes a candidate
\* away; and a page that is read gives its candidates under the name of its
\* source.
C20_SourceFailureSkipped ==
    [][/\ (ScrapeGet /\ srcIdx' # srcIdx) =>
              /\ found' = found
              /\ srcIdx' = srcIdx + 1
              /\ pc' = "scrape"
              /\ anchor' = 0
              /\ dbvars' = dbvars
       /\ pc = "scrape" =>
              /\ pc' # "idle"
              /\ Len(found') >= Len(found)
              /\ SubSeq(found', 1, Len(found)) = found
       /\ (ScrapeAnchor /\ is_candidate(html[1][anchor])) =>
              /\ Len(found') = Len(found) + 1
              /\ found'[Len(found')].src = SOURCES[srcIdx].name]_vars

\* the cycle is over: run has appended its row to runs and cleanup is done
Completed == Len(runs) = 1 /\ pc \in {"log", "web", "idle"}

\* the check_one of item i has its outcome
Resolved(i) == i \in DOMAIN tpc /\ tpc[i] \in {"checked", "trust", "replace", "done"}

\* a thread other than the one of item i is in a check_one, or can take the
\* next item of the queue
OthersAtWork(i) ==
    \/ \E j \in DOMAIN tpc \ {i} : Running(j)
    \/ ENABLED (\E j \in DOMAIN tpc : TaskStart(j))

\* once scrape has returned its candidates, the cycle gets to its end
CompletesOnceExtracted == (pc = "resolve") ~> Completed

\* C21: when every GET returns or raises and every thread gets to run, a
\* cycle that has started gets to its end, with its row in runs; every
\* candidate gets its outcome; and while the GET of a candidate is
\* outstanding and candidates are queued, the other threads of the pool are
\* in a check_one or can take the next candidate.
C21_CycleCompletes ==
    /\ (pc = "scrape") ~> Completed
    /\ \A i \in 1..PoolItems :
          (pc = "resolve" /\ i \in DOMAIN tpc) ~> Resolved(i)
    /\ [](\A i \in DOMAIN tpc :
            (/\ tpc[i] = "fetching"
             /\ nthreads >= 2
             /\ \E j \in DOMAIN tpc : tpc[j] = "queued") => OthersAtWork(i))

\* C22: in every state, every record of links with valid = 1 has the allowed
\* final domain and a score of at least the threshold.
C22_ValidPassedGate ==
    \A u \in DOMAIN links :
        links[u].valid = 1 =>
            /\ links[u].final_domain = ALLOWED_FINAL_DOMAIN
            /\ links[u].score >= SCORE_THRESHOLD

\* the web UI of a dry run at hour 72, the second cycle on the database:
\* links holds a valid record, and a record that was invalidated
C22_Witness ==
    /\ pc = "web"
    /\ dry
    /\ now = TickHours
    /\ Len(runs) = 2
    /\ \E u \in DOMAIN links : links[u].valid = 1
    /\ \E u \in DOMAIN links : links[u].valid = 0

====
